---- MODULE Spec2Model ----
(***************************************************************************)
(* Model of apache/aurora/client/factory.py: make_client_factory, the      *)
(* TwitterAuroraClientAPI class it builds, and make_client.                *)
(*                                                                         *)
(* Python values are tagged records: a str is [type |-> "str", value],     *)
(* a Cluster object is [type |-> "Cluster", name, zone].  Keyword          *)
(* arguments are functions from keyword names to values.                   *)
(***************************************************************************)
EXTENDS Integers, Sequences, FiniteSets, TLC

VARIABLES
  CLUSTERS,   \* the cluster registry: cluster name -> Cluster descriptor
  options,    \* the ambient options object returned by app.get_options()
  factory,    \* the bound constructor the caller holds (None before the first one)
  last,       \* record of the most recent constructor call and its outcome
  nextId      \* identity given to the next client instance constructed

vars == <<CLUSTERS, options, factory, last, nextId>>

---------------------------------------------------------------------------
(* Bounds of the model *)

MaxClients == 2

---------------------------------------------------------------------------
(* Values the environment supplies *)

Names == {"west", "east", "mars"}
UserAgents == {"X", "Y"}
Verbosities == {"normal", "verbose", "quiet"}
CtorErrors == {"none", "IOError"}

Str(s) == [type |-> "str", value |-> s]
ClusterObj(n, z) == [type |-> "Cluster", name |-> n, zone |-> z]

NoKw == [k \in {} |-> TRUE]

\* Cluster objects a caller can hold: the registry's own entry for west, another
\* object named west whose other field differs, and an object named mars
ClusterObjects ==
  {ClusterObj("west", "z1"), ClusterObj("west", "z2"), ClusterObj("mars", "z1")}

\* cluster references a caller can pass: a name or a Cluster object
ClusterRefs == {Str(n) : n \in Names} \cup ClusterObjects

\* extra positional and keyword arguments a caller can pass to the bound constructor
ExtraArgs ==
  { [args |-> <<>>, kw |-> NoKw],
    [args |-> <<"a">>, kw |-> NoKw],
    [args |-> <<>>, kw |-> [user_agent |-> "Z"]],
    [args |-> <<>>, kw |-> [verbose |-> TRUE]] }

\* the registry the process was started with: west and east are known, mars is not
InitialClusters ==
  [n \in {"west", "east"} |-> ClusterObj(n, IF n = "west" THEN "z1" ELSE "z2")]

\* the ambient options object: the verbosity attribute may be absent
OptionValues == {NoKw} \cup {[verbosity |-> v] : v \in Verbosities}

None == [type |-> "None"]

---------------------------------------------------------------------------
(* Python built-ins and the collaborators of factory.py *)

\* getattr(obj, name, default)
GetAttr(obj, name, default) == IF name \in DOMAIN obj THEN obj[name] ELSE default

\* isinstance(x, Cluster)
IsCluster(x) == x.type = "Cluster"

\* '%s' % x
Format(x) ==
  IF x.type = "str" THEN x.value
  ELSE "{name: " \o x.name \o ", zone: " \o x.zone \o "}"

\* keyword arguments of a functools.partial call: the call's keywords extend and
\* override the keywords bound in the partial object
MergeKeywords(bound, given) ==
  [k \in DOMAIN bound \cup DOMAIN given |->
     IF k \in DOMAIN given THEN given[k] ELSE bound[k]]

\* key in CLUSTERS: the registry is keyed by cluster name
Contains(reg, key) == key.type = "str" /\ key.value \in DOMAIN reg

\* CLUSTERS[key]
GetItem(reg, key) == reg[key.value]

\* die(msg): emit the diagnostic and terminate the current operation
Die(msg) == [kind |-> "Rejected", diagnostic |-> msg]

\* base_class.__init__(cluster, user_agent, verbose, *extra): a positional extra
\* argument collides with the user_agent keyword; otherwise the constructor fails
\* with err, or builds the client from its arguments
BaseInit(base_class, cluster, args, kw, err) ==
  IF Len(args) > 0 /\ "user_agent" \in DOMAIN kw
  THEN [kind |-> "Raised", error |-> "TypeError"]
  ELSE IF err # "none"
  THEN [kind |-> "Raised", error |-> err]
  ELSE [kind |-> "Constructed",
        client |-> [variant    |-> base_class,
                    cluster    |-> cluster,
                    user_agent |-> kw["user_agent"],
                    verbose    |-> kw["verbose"]]]

---------------------------------------------------------------------------
(* factory.py *)

\* ClusterName with a fault: the name of a Cluster object is not extracted
ClusterName_Identity(cluster) == cluster

\* line 45: cluster.name if isinstance(cluster, Cluster) else cluster
ClusterName(cluster) == IF IsCluster(cluster) THEN Str(cluster.name) ELSE cluster

\* the record of one call of the base constructor and of what it did
InitEvent(base_class, cluster, args, kw, result) ==
  [op |-> "init", base_class |-> base_class, cluster |-> cluster,
   args |-> args, kw |-> kw, result |-> result]

\* Verbose with a fault: every setting other than 'normal' counts as verbose
Verbose_NotNormal(opts) == GetAttr(opts, "verbosity", "normal") # "normal"

\* line 31: verbose = getattr(app.get_options(), 'verbosity', 'normal') == 'verbose'
Verbose(opts) == GetAttr(opts, "verbosity", "normal") = "verbose"

\* BaseClass with a fault: the flag is ignored
BaseClass_AlwaysHooked(enable_hooks) == "HookedAuroraClientAPI"

\* line 33: base_class = HookedAuroraClientAPI if enable_hooks else AuroraClientAPI
BaseClass(enable_hooks) ==
  IF enable_hooks THEN "HookedAuroraClientAPI" ELSE "AuroraClientAPI"

\* TwitterInit with a fault: the diagnostic does not name the cluster
TwitterInit_BareDiagnostic(base_class, reg, cluster, args, kw, err) ==
  IF ~Contains(reg, cluster)
  THEN [trace   |-> << [op |-> "contains", key |-> cluster],
                       [op |-> "die"] >>,
        outcome |-> Die("Unknown cluster: ")]
  ELSE LET result == BaseInit(base_class, GetItem(reg, cluster), args, kw, err)
       IN  [trace   |-> << [op |-> "contains", key |-> cluster],
                           [op |-> "getitem", key |-> cluster],
                           InitEvent(base_class, GetItem(reg, cluster), args, kw, result) >>,
            outcome |-> result]

\* TwitterInit with a fault: the base constructor is given the name, not CLUSTERS[name]
TwitterInit_PassesName(base_class, reg, cluster, args, kw, err) ==
  IF ~Contains(reg, cluster)
  THEN [trace   |-> << [op |-> "contains", key |-> cluster],
                       [op |-> "die"] >>,
        outcome |-> Die("Unknown cluster: " \o Format(cluster))]
  ELSE LET result == BaseInit(base_class, cluster, args, kw, err)
       IN  [trace   |-> << [op |-> "contains", key |-> cluster],
                           InitEvent(base_class, cluster, args, kw, result) >>,
            outcome |-> result]

\* TwitterInit with a fault: the verbose keyword is not forwarded, so the base
\* constructor falls back to its default
TwitterInit_DropsVerbose(base_class, reg, cluster, args, kw, err) ==
  IF ~Contains(reg, cluster)
  THEN [trace   |-> << [op |-> "contains", key |-> cluster],
                       [op |-> "die"] >>,
        outcome |-> Die("Unknown cluster: " \o Format(cluster))]
  ELSE LET sent   == [kw EXCEPT !["verbose"] = FALSE]
           result == BaseInit(base_class, GetItem(reg, cluster), args, sent, err)
       IN  [trace   |-> << [op |-> "contains", key |-> cluster],
                           [op |-> "getitem", key |-> cluster],
                           InitEvent(base_class, GetItem(reg, cluster), args, sent, result) >>,
            outcome |-> result]

\* TwitterInit with a fault: a Cluster object is resolved by its name
TwitterInit_ResolvesByName(base_class, reg, cluster, args, kw, err) ==
  IF ~Contains(reg, ClusterName(cluster))
  THEN [trace   |-> << [op |-> "contains", key |-> ClusterName(cluster)],
                       [op |-> "die"] >>,
        outcome |-> Die("Unknown cluster: " \o Format(ClusterName(cluster)))]
  ELSE LET result == BaseInit(base_class, GetItem(reg, ClusterName(cluster)), args, kw, err)
       IN  [trace   |-> << [op |-> "contains", key |-> ClusterName(cluster)],
                           [op |-> "getitem", key |-> ClusterName(cluster)],
                           InitEvent(base_class, GetItem(reg, ClusterName(cluster)),
                                     args, kw, result) >>,
            outcome |-> result]

\* TwitterInit with a fault: a failed base constructor is called a second time
TwitterInit_Retries(base_class, reg, cluster, args, kw, err) ==
  IF ~Contains(reg, cluster)
  THEN [trace   |-> << [op |-> "contains", key |-> cluster],
                       [op |-> "die"] >>,
        outcome |-> Die("Unknown cluster: " \o Format(cluster))]
  ELSE LET result == BaseInit(base_class, GetItem(reg, cluster), args, kw, err)
           first  == << [op |-> "contains", key |-> cluster],
                        [op |-> "getitem", key |-> cluster],
                        InitEvent(base_class, GetItem(reg, cluster), args, kw, result) >>
       IN  [trace   |-> IF result.kind = "Raised"
                        THEN Append(first, InitEvent(base_class, GetItem(reg, cluster),
                                                     args, kw, result))
                        ELSE first,
            outcome |-> result]

\* lines 36-39: TwitterAuroraClientAPI.__init__(self, cluster, *args, **kw).
\* trace lists the calls it makes on its collaborators, in order.
TwitterInit(base_class, reg, cluster, args, kw, err) ==
  IF ~Contains(reg, cluster)
  THEN [trace   |-> << [op |-> "contains", key |-> cluster],
                       [op |-> "die"] >>,
        outcome |-> Die("Unknown cluster: " \o Format(cluster))]
  ELSE LET result == BaseInit(base_class, GetItem(reg, cluster), args, kw, err)
       IN  [trace   |-> << [op |-> "contains", key |-> cluster],
                           [op |-> "getitem", key |-> cluster],
                           InitEvent(base_class, GetItem(reg, cluster), args, kw, result) >>,
            outcome |-> result]

\* lines 30-40: make_client_factory(user_agent, enable_hooks): the partial object
\* over the class built on base_class.  enable_hooks is the flag it was made with.
MakeClientFactory(user_agent, enable_hooks, opts) ==
  [type         |-> "partial",
   enable_hooks |-> enable_hooks,
   base_class   |-> BaseClass(enable_hooks),
   keywords     |-> [user_agent |-> user_agent, verbose |-> Verbose(opts)]]

\* calling the partial object: factory(cluster, *args, **kw)
CallFactory(f, reg, cluster, args, kw, err) ==
  TwitterInit(f.base_class, reg, cluster, args, MergeKeywords(f.keywords, kw), err)

\* lines 43-45: make_client(cluster, user_agent, enable_hooks)
MakeClient(cluster, user_agent, enable_hooks, opts, reg, err) ==
  LET f == MakeClientFactory(user_agent, enable_hooks, opts)
  IN  CallFactory(f, reg, ClusterName(cluster), <<>>, NoKw, err)

\* the record kept of one call: the bound constructor called, whether the ambient
\* setting asked for verbosity during the call, the arguments, the calls made on
\* the collaborators, the outcome, and the identity of the instance returned
CallRecord(via, f, opts, cluster, args, kw, r, id) ==
  [via     |-> via,
   factory |-> f,
   ambient |-> (GetAttr(opts, "verbosity", "normal") = "verbose"),
   cluster |-> cluster,
   args    |-> args,
   kw      |-> kw,
   trace   |-> r.trace,
   outcome |-> r.outcome,
   id      |-> IF r.outcome.kind = "Constructed" THEN id ELSE -1]

---------------------------------------------------------------------------
(* The state machine *)

Init ==
  /\ CLUSTERS = InitialClusters
  /\ options \in OptionValues
  /\ factory = None
  /\ last = None
  /\ nextId = 0

\* the process-wide options change (option parsing is outside factory.py)
SetOptions ==
  /\ \E o \in OptionValues : options' = o
  /\ UNCHANGED <<CLUSTERS, factory, last, nextId>>

\* factory = make_client_factory(user_agent, enable_hooks)
DoMakeClientFactory ==
  /\ \E ua \in UserAgents, h \in BOOLEAN :
       factory' = MakeClientFactory(ua, h, options)
  /\ UNCHANGED <<CLUSTERS, options, last, nextId>>

\* DoCallFactory with a fault: verbose is read from the ambient options at each call
DoCallFactory_RereadsOptions ==
  /\ factory # None
  /\ nextId < MaxClients
  /\ \E c \in ClusterRefs, x \in ExtraArgs, err \in CtorErrors :
       LET reread == [factory EXCEPT !.keywords["verbose"] = Verbose(options)]
           r == CallFactory(reread, CLUSTERS, c, x.args, x.kw, err)
       IN  /\ last' = CallRecord("factory", factory, options, c, x.args, x.kw, r, nextId)
           /\ nextId' = IF r.outcome.kind = "Constructed" THEN nextId + 1 ELSE nextId
  /\ UNCHANGED <<CLUSTERS, options, factory>>

\* DoCallFactory with a fault: the factory hands out one shared instance
DoCallFactory_Singleton ==
  /\ factory # None
  /\ nextId < MaxClients
  /\ \E c \in ClusterRefs, x \in ExtraArgs, err \in CtorErrors :
       LET r == CallFactory(factory, CLUSTERS, c, x.args, x.kw, err)
       IN  /\ last' = CallRecord("factory", factory, options, c, x.args, x.kw, r, 0)
           /\ nextId' = nextId
  /\ UNCHANGED <<CLUSTERS, options, factory>>

\* factory(cluster, *args, **kw)
DoCallFactory ==
  /\ factory # None
  /\ nextId < MaxClients
  /\ \E c \in ClusterRefs, x \in ExtraArgs, err \in CtorErrors :
       LET r == CallFactory(factory, CLUSTERS, c, x.args, x.kw, err)
       IN  /\ last' = CallRecord("factory", factory, options, c, x.args, x.kw, r, nextId)
           /\ nextId' = IF r.outcome.kind = "Constructed" THEN nextId + 1 ELSE nextId
  /\ UNCHANGED <<CLUSTERS, options, factory>>

\* make_client(cluster, user_agent, enable_hooks)
DoMakeClient ==
  /\ nextId < MaxClients
  /\ \E c \in ClusterRefs, ua \in UserAgents, h \in BOOLEAN, err \in CtorErrors :
       LET r == MakeClient(c, ua, h, options, CLUSTERS, err)
       IN  /\ last' = CallRecord("make_client", MakeClientFactory(ua, h, options),
                                 options, c, <<>>, NoKw, r, nextId)
           /\ nextId' = IF r.outcome.kind = "Constructed" THEN nextId + 1 ELSE nextId
  /\ UNCHANGED <<CLUSTERS, options, factory>>

Next == SetOptions \/ DoMakeClientFactory \/ DoCallFactory \/ DoMakeClient

Spec == Init /\ [][Next]_vars

---------------------------------------------------------------------------
(* Vocabulary of the properties *)

Called == last # None
ViaFactory == Called /\ last.via = "factory"
ViaMakeClient == Called /\ last.via = "make_client"
Constructed == Called /\ last.outcome.kind = "Constructed"
Rejected == Called /\ last.outcome.kind = "Rejected"
Raised == Called /\ last.outcome.kind = "Raised"

\* the name a cluster reference carries
NameOf(ref) == IF ref.type = "str" THEN ref.value ELSE ref.name

\* the number of base-constructor calls in a trace
InitCount(trace) == Cardinality({i \in DOMAIN trace : trace[i].op = "init"})

\* the descriptors held by the registry
Descriptors == {CLUSTERS[n] : n \in DOMAIN CLUSTERS}

---------------------------------------------------------------------------
(* C1 *)

\* C1: a call of the bound constructor with a cluster name that is absent from
\* the registry emits the diagnostic 'Unknown cluster: <name>', ends Rejected,
\* returns no instance and never calls the base constructor.
C1_UnknownClusterRejected ==
  (Called /\ last.cluster.type = "str" /\ last.cluster.value \notin DOMAIN CLUSTERS)
    => /\ last.outcome = [kind |-> "Rejected",
                          diagnostic |-> "Unknown cluster: " \o last.cluster.value]
       /\ last.id = -1
       /\ InitCount(last.trace) = 0
       /\ last.trace[Len(last.trace)].op = "die"

C1_Witness ==
  /\ ViaFactory
  /\ last.cluster = Str("mars")
  /\ last.outcome.kind = "Rejected"
  /\ last.outcome.diagnostic = "Unknown cluster: mars"

---------------------------------------------------------------------------
(* C2 *)

\* C2: make_client with a cluster name present in the registry is never rejected,
\* hands the registry's entry for that name to the base constructor, and the
\* client it returns is bound to that entry; every client returned by any call
\* is bound to a descriptor that is an entry of the registry.
C2_BoundToRegistryEntry ==
  /\ (ViaMakeClient /\ last.cluster.type = "str" /\ last.cluster.value \in DOMAIN CLUSTERS)
       => /\ ~Rejected
          /\ last.trace[Len(last.trace)].op = "init"
          /\ last.trace[Len(last.trace)].cluster = CLUSTERS[last.cluster.value]
          /\ Constructed => last.outcome.client.cluster = CLUSTERS[last.cluster.value]
  /\ Constructed => last.outcome.client.cluster \in Descriptors

C2_Witness ==
  /\ ViaMakeClient
  /\ last.cluster = Str("east")
  /\ Constructed
  /\ last.outcome.client.cluster = ClusterObj("east", "z2")

---------------------------------------------------------------------------
(* C3 *)

\* C3 as stated: every client a bound constructor produces carries the user_agent
\* and verbose fixed at make_client_factory, whatever arguments the call passes.
C3_Original ==
  (ViaFactory /\ Constructed)
    => /\ last.outcome.client.user_agent = last.factory.keywords["user_agent"]
       /\ last.outcome.client.verbose = last.factory.keywords["verbose"]

\* C3 amended: a client produced by a call that passes no user_agent keyword of its
\* own carries the user_agent fixed at make_client_factory, and one produced by a
\* call that passes no verbose keyword of its own carries the verbose fixed then,
\* whatever cluster the call names.
C3_Amended ==
  (ViaFactory /\ Constructed)
    => /\ "user_agent" \notin DOMAIN last.kw
            => last.outcome.client.user_agent = last.factory.keywords["user_agent"]
       /\ "verbose" \notin DOMAIN last.kw
            => last.outcome.client.verbose = last.factory.keywords["verbose"]

C3_Witness ==
  /\ ViaFactory
  /\ Constructed
  /\ last.id > 0
  /\ last.kw = NoKw
  /\ last.factory.keywords["user_agent"] = "Y"
  /\ last.outcome.client.user_agent = "Y"

---------------------------------------------------------------------------
(* C4 *)

---------------------------------------------------------------------------
(* C5 *)

\* C5 as stated: the bound constructor called with a Cluster object whose name is
\* in the registry is not rejected and binds the client to the registry's entry
\* for that name.
C5_Original ==
  (ViaFactory /\ IsCluster(last.cluster) /\ last.cluster.name \in DOMAIN CLUSTERS)
    => /\ ~Rejected
       /\ Constructed => last.outcome.client.cluster = CLUSTERS[last.cluster.name]

\* C5 amended: the bound constructor called directly with a Cluster object looks
\* the object itself up in the registry, never its name: no client is returned and
\* the base constructor is not called, also when the object's name is in the
\* registry.  Only make_client extracts the name.
C5_Amended ==
  (ViaFactory /\ IsCluster(last.cluster))
    => /\ ~Constructed
       /\ last.id = -1
       /\ InitCount(last.trace) = 0
       /\ last.trace[1] = [op |-> "contains", key |-> last.cluster]

C5_Witness ==
  /\ ViaFactory
  /\ last.cluster = ClusterObj("west", "z1")
  /\ last.cluster = CLUSTERS["west"]
  /\ Rejected

---------------------------------------------------------------------------
(* C6 *)

\* what two calls have in common when they end the same way: the same rejection,
\* or the same call of the base constructor with the same result
SameEnding(a, b) ==
  /\ a.outcome = b.outcome
  /\ a.trace = b.trace

\* C6: two successive make_client calls with the same user_agent, enable_hooks
\* and ambient setting, whose cluster references carry the same name (one a
\* string, one a Cluster object, or two objects differing in other fields),
\* look up the same key and end the same way when the base constructor behaves
\* the same: the same rejection, or the same descriptor and configuration.
C6_ReferenceNormalisation ==
  [][ (/\ last # None /\ last' # None
       /\ last.via = "make_client" /\ last'.via = "make_client"
       /\ last.factory = last'.factory
       /\ NameOf(last.cluster) = NameOf(last'.cluster))
      => /\ last.trace[1] = last'.trace[1]
         /\ last'.trace[1].key = Str(NameOf(last'.cluster))
         /\ (last.outcome.kind = "Rejected") = (last'.outcome.kind = "Rejected")
         /\ Len(last.trace) = Len(last'.trace)
         /\ last.outcome.kind = last'.outcome.kind => SameEnding(last, last')
         /\ last.outcome.kind # "Rejected"
              => /\ last.trace[3].cluster = last'.trace[3].cluster
                 /\ last.trace[3].kw = last'.trace[3].kw ]_vars

C6_Witness ==
  /\ ViaMakeClient
  /\ last.cluster = ClusterObj("west", "z2")
  /\ Constructed
  /\ last.outcome.client.cluster = ClusterObj("west", "z1")

---------------------------------------------------------------------------
(* C7 *)

\* the variant the flag selects
VariantFor(enable_hooks) ==
  IF enable_hooks THEN "HookedAuroraClientAPI" ELSE "AuroraClientAPI"

\* two calls that differ only in the enable_hooks flag their factory was made with
DifferOnlyInHooks(a, b) ==
  /\ a.via = b.via
  /\ a.cluster = b.cluster
  /\ a.args = b.args
  /\ a.kw = b.kw
  /\ a.factory.keywords = b.factory.keywords
  /\ a.factory.enable_hooks # b.factory.enable_hooks

\* C7: the base constructor called, and the variant of the client returned, is
\* the hook-augmented one when the factory was made with enable_hooks true and
\* the plain one when it was made with enable_hooks false; two successive calls
\* that differ only in that flag validate the same key, are rejected alike, hand
\* the same descriptor and the same positional and keyword arguments to the base
\* constructor, and return clients equal in descriptor, user_agent and verbose.
C7_HookToggling ==
  [][ /\ (last' # None /\ last'.outcome.kind # "Rejected")
         => last'.trace[3].base_class = VariantFor(last'.factory.enable_hooks)
      /\ (last' # None /\ last'.outcome.kind = "Constructed")
         => last'.outcome.client.variant = VariantFor(last'.factory.enable_hooks)
      /\ (last # None /\ last' # None /\ DifferOnlyInHooks(last, last'))
         => /\ last.trace[1] = last'.trace[1]
            /\ Len(last.trace) = Len(last'.trace)
            /\ last'.outcome.kind = "Rejected" => last.outcome = last'.outcome
            /\ last'.outcome.kind # "Rejected"
                 => /\ last.trace[3].cluster = last'.trace[3].cluster
                    /\ last.trace[3].args = last'.trace[3].args
                    /\ last.trace[3].kw = last'.trace[3].kw
            /\ (last.outcome.kind = "Constructed" /\ last'.outcome.kind = "Constructed")
                 => /\ last.outcome.client.cluster = last'.outcome.client.cluster
                    /\ last.outcome.client.user_agent = last'.outcome.client.user_agent
                    /\ last.outcome.client.verbose = last'.outcome.client.verbose
                    /\ last.outcome.client.variant # last'.outcome.client.variant ]_vars

C7_Witness ==
  /\ ViaFactory
  /\ Constructed
  /\ last.id > 0
  /\ ~last.factory.enable_hooks
  /\ last.outcome.client.variant = "AuroraClientAPI"

---------------------------------------------------------------------------
(* C8 *)

\* two calls of the same bound constructor with the same arguments
SameCall(a, b) ==
  /\ a.via = b.via
  /\ a.factory = b.factory
  /\ a.cluster = b.cluster
  /\ a.args = b.args
  /\ a.kw = b.kw

\* C8: no step changes the registry and no call changes the bound constructor; a
\* call is rejected exactly when the key it looks up is not a name of the
\* registry, whatever call came before it (a rejected one included); a newly
\* returned instance is never the instance the previous call returned; and a call
\* that repeats the previous call looks up the same key and, when both return a
\* client, returns a distinct instance with the same binding and configuration.
C8_IndependentCalls ==
  [][ /\ CLUSTERS' = CLUSTERS
      /\ (last' # last \/ nextId' # nextId) => factory' = factory
      /\ last' # None
           => (last'.outcome.kind = "Rejected")
                = ~(/\ last'.trace[1].key.type = "str"
                    /\ last'.trace[1].key.value \in DOMAIN CLUSTERS)
      /\ (/\ last # None /\ last' # None
          /\ (last' # last \/ nextId' # nextId)
          /\ last.outcome.kind = "Constructed" /\ last'.outcome.kind = "Constructed")
           => last'.id # last.id
      /\ (/\ last # None /\ last' # None
          /\ (last' # last \/ nextId' # nextId)
          /\ SameCall(last, last'))
           => /\ last.trace[1] = last'.trace[1]
              /\ Len(last.trace) = Len(last'.trace)
              /\ (last.outcome.kind = "Constructed" /\ last'.outcome.kind = "Constructed")
                   => /\ last.outcome.client = last'.outcome.client
                      /\ last.id # last'.id ]_vars

C8_Witness ==
  /\ ViaFactory
  /\ Constructed
  /\ last.cluster = Str("west")
  /\ last.id > 0
  /\ nextId = last.id + 1
  /\ CLUSTERS = InitialClusters

---------------------------------------------------------------------------
(* C9 *)

\* C9: when the key looked up is a name of the registry the call makes exactly
\* three calls on its collaborators, in this order: the membership test, the
\* lookup, and one call of the base constructor; the outcome of the call is the
\* result of that one constructor call, so when the constructor fails its error
\* is the outcome, no instance is returned and it is not called again.
C9_ConstructorOnceFailurePropagates ==
  (/\ Called
   /\ last.trace[1].key.type = "str"
   /\ last.trace[1].key.value \in DOMAIN CLUSTERS)
    => /\ Len(last.trace) = 3
       /\ last.trace[1].op = "contains"
       /\ last.trace[2].op = "getitem"
       /\ last.trace[3].op = "init"
       /\ InitCount(last.trace) = 1
       /\ last.outcome = last.trace[3].result
       /\ last.trace[3].result.kind = "Raised" => (Raised /\ last.id = -1)

C9_Witness ==
  /\ ViaFactory
  /\ last.cluster = Str("east")
  /\ last.outcome = [kind |-> "Raised", error |-> "IOError"]
  /\ InitCount(last.trace) = 1
  /\ last.id = -1

---------------------------------------------------------------------------
(* C10 *)

\* the ambient setting is present and equal to 'verbose'
AmbientIsVerbose(opts) == "verbosity" \in DOMAIN opts /\ opts["verbosity"] = "verbose"

\* C10: the verbose value a newly made factory holds, and the verbose value of a
\* client make_client returns, is true exactly when the ambient verbosity setting
\* is present and equal to 'verbose' at that moment; it is false when the setting
\* is absent, 'normal' or any other value.
C10_VerboseFlag ==
  [][ /\ factory' # factory
           => factory'.keywords["verbose"] = AmbientIsVerbose(options)
      /\ (last' # None /\ last'.via = "make_client" /\ (last' # last \/ nextId' # nextId))
           => /\ last'.factory.keywords["verbose"] = AmbientIsVerbose(options)
              /\ last'.outcome.kind = "Constructed"
                   => last'.outcome.client.verbose = AmbientIsVerbose(options) ]_vars

C10_Witness ==
  /\ ViaMakeClient
  /\ Constructed
  /\ options = [verbosity |-> "verbose"]
  /\ last.ambient
  /\ last.outcome.client.verbose
  /\ factory # None
  /\ factory.keywords["verbose"]

====
